---------------------------- MODULE Spec2Model ----------------------------
(***************************************************************************)
(* A model of structstruck's flattening engine (src/src/imp.rs).           *)
(*                                                                         *)
(* Token streams are sequences of tokens.  A token is a record             *)
(*     [k |-> "ident" | "punct" | "group", v |-> text, g |-> contents]     *)
(* where v is the identifier text, the punctuation character or the open   *)
(* delimiter of a group, and g is the token stream inside a group.         *)
(* Option<T> is modelled as a sequence of length 0 (None) or 1 (Some).     *)
(* Spans are not modelled, except for stream_span being None or Some.      *)
(***************************************************************************)
EXTENDS Integers, Sequences, FiniteSets, TLC

VARIABLES
    pc,             \* position of the operation under way
    input,          \* the token stream handed to the operation
    src,            \* the declaration tree the input tokens were rendered from
    strike_attrs,   \* recurse_through_definition's inherited attribute list
    make_pub,       \* recurse_through_definition's force-public flag
    venial,         \* what the declaration parser does with trailing tokens
    ret,            \* the output stream: [out |-> items, panic |-> aborted]
    generics,       \* recurse_through_definition's return value
    tree,           \* type_tree's return value
    type_ret        \* un_tree_type's output

vars == <<pc, input, src, strike_attrs, make_pub, venial, ret, generics,
          tree, type_ret>>

-----------------------------------------------------------------------------
(* Options and tokens *)

None == <<>>

Some(x) == <<x>>

Ident(s) == [k |-> "ident", v |-> s, g |-> <<>>]

Punct(c) == [k |-> "punct", v |-> c, g |-> <<>>]

Group(d, s) == [k |-> "group", v |-> d, g |-> s]

is_ident(t, s) == t.k = "ident" /\ t.v = s

is_punct(t, c) == t.k = "punct" /\ t.v = c

RECURSIVE Concat(_)
Concat(ss) == IF ss = <<>> THEN <<>> ELSE Head(ss) \o Concat(Tail(ss))

\* position of the first element of s satisfying P, 0 when there is none
Position(s, P(_)) ==
    IF \E i \in 1..Len(s) : P(s[i])
    THEN CHOOSE i \in 1..Len(s) : P(s[i]) /\ \A j \in 1..(i - 1) : ~P(s[j])
    ELSE 0

-----------------------------------------------------------------------------
(* The output stream *)

EmptyRet == [out |-> <<>>, panic |-> FALSE]

ErrorItem(msg) == [t |-> "error", msg |-> msg]

\* something is appended to ret; nothing is after a panic unwound the call
Emit(r, item) == IF r.panic THEN r ELSE [r EXCEPT !.out = Append(@, item)]

Panic(r) == [r EXCEPT !.panic = TRUE]

report_error(span, r, error) ==
    IF span # None THEN Emit(r, ErrorItem(error)) ELSE Panic(r)

stream_span(toks) == IF toks = <<>> THEN None ELSE Some("span")

-----------------------------------------------------------------------------
(* Naming *)

to_ascii_uppercase(c) ==
    CASE c = "a" -> "A" [] c = "b" -> "B" [] c = "c" -> "C" [] c = "d" -> "D"
      [] c = "e" -> "E" [] c = "f" -> "F" [] c = "g" -> "G" [] c = "h" -> "H"
      [] c = "i" -> "I" [] c = "j" -> "J" [] c = "k" -> "K" [] c = "l" -> "L"
      [] c = "m" -> "M" [] c = "n" -> "N" [] c = "o" -> "O" [] c = "p" -> "P"
      [] c = "q" -> "Q" [] c = "r" -> "R" [] c = "s" -> "S" [] c = "t" -> "T"
      [] c = "u" -> "U" [] c = "v" -> "V" [] c = "w" -> "W" [] c = "x" -> "X"
      [] c = "y" -> "Y" [] c = "z" -> "Z" [] OTHER -> c

RECURSIVE pascal_case_from(_, _, _)
pascal_case_from(s, i, uppercase_next) ==
    IF i > Len(s) THEN ""
    ELSE LET c == SubSeq(s, i, i) IN
         IF c = "_" THEN pascal_case_from(s, i + 1, TRUE)
         ELSE IF uppercase_next
              THEN to_ascii_uppercase(c) \o pascal_case_from(s, i + 1, FALSE)
              ELSE c \o pascal_case_from(s, i + 1, FALSE)

pascal_case(s) == pascal_case_from(s, 1, TRUE)

NameHintsNew(long, parent_name) ==
    [long |-> long, parent_name |-> parent_name,
     variant_name |-> None, field_name |-> None]

with_field_name(self, field_name) ==
    [self EXCEPT !.field_name = Some(field_name)]

with_variant_name(self, variant_name) ==
    [self EXCEPT !.variant_name = Some(variant_name)]

OrElse(a, b) == IF a # None THEN a ELSE b

RECURSIVE FoldNames(_)
FoldNames(names) ==
    IF names = <<>> THEN ""
    ELSE (IF Head(names) = None THEN "" ELSE pascal_case(Head(names)[1]))
         \o FoldNames(Tail(names))

\* the index written whatever it is
get_name_hint_indexed(self, n) ==
    LET numstr == IF n # None THEN ToString(n[1]) ELSE ""
    IN  pascal_case(OrElse(self.field_name,
                           OrElse(self.variant_name, Some(self.parent_name)))[1])
        \o numstr

\* the field name ahead of the variant name
get_name_hint_field_first(self, n) ==
    LET numstr == IF n # None /\ n[1] > 0 THEN Some(ToString(n[1])) ELSE None
        names  == IF self.long
                  THEN <<Some(self.parent_name), self.field_name,
                         self.variant_name, numstr>>
                  ELSE <<OrElse(self.field_name,
                                OrElse(self.variant_name, Some(self.parent_name))),
                         numstr>>
    IN  FoldNames(names)

get_name_hint(self, n) ==
    LET numstr == IF n # None /\ n[1] > 0 THEN Some(ToString(n[1])) ELSE None
        names  == IF self.long
                  THEN <<Some(self.parent_name), self.variant_name,
                         self.field_name, numstr>>
                  ELSE <<OrElse(self.field_name,
                                OrElse(self.variant_name, Some(self.parent_name))),
                         numstr>>
    IN  FoldNames(names)

\* Ident::new takes a string that is an identifier, and panics on any other
is_valid_ident(name) ==
    /\ name # ""
    /\ SubSeq(name, 1, 1) \notin {"0", "1", "2", "3", "4", "5", "6", "7", "8", "9"}

Ident_new(name, r) == IF is_valid_ident(name) THEN r ELSE Panic(r)

-----------------------------------------------------------------------------
(* The bracket-aware tokenizer *)

TTToken(t) == [node |-> "Token", tok |-> t, children |-> <<>>, close |-> None]

\* a group that forgets its closing bracket
TTGroupUnclosed(o, g, c) == [node |-> "Group", tok |-> o, children |-> g, close |-> None]

TTGroup(o, g, c) == [node |-> "Group", tok |-> o, children |-> g, close |-> c]

\* the loop over args; a stack entry is <<open, parent>>
RECURSIVE type_tree_args(_, _, _, _, _)
type_tree_args(args, i, stac, current, r) ==
    IF i > Len(args) THEN [stac |-> stac, current |-> current, ret |-> r]
    ELSE LET tt == args[i] IN
         IF is_punct(tt, "<")
         THEN type_tree_args(args, i + 1, Append(stac, <<tt, current>>), <<>>, r)
         ELSE IF is_punct(tt, ">")
         THEN IF stac # <<>>
              THEN LET top == stac[Len(stac)] IN
                   type_tree_args(args, i + 1, SubSeq(stac, 1, Len(stac) - 1),
                                  Append(top[2], TTGroup(top[1], current, Some(tt))), r)
              ELSE type_tree_args(args, i + 1, stac, Append(current, TTToken(tt)),
                                  report_error(Some("span"), r, "Unexpected >"))
         ELSE type_tree_args(args, i + 1, stac, Append(current, TTToken(tt)), r)

\* the frames left open closed without a report
RECURSIVE type_tree_unclosed_silent(_, _, _)
type_tree_unclosed_silent(stac, current, r) ==
    IF stac = <<>> THEN [tree |-> current, ret |-> r]
    ELSE LET top == stac[Len(stac)] IN
         type_tree_unclosed_silent(SubSeq(stac, 1, Len(stac) - 1),
                                   Append(top[2], TTGroup(top[1], current, None)), r)

\* the loop closing the frames left open at the end of the input
RECURSIVE type_tree_unclosed(_, _, _)
type_tree_unclosed(stac, current, r) ==
    IF stac = <<>> THEN [tree |-> current, ret |-> r]
    ELSE LET top == stac[Len(stac)] IN
         type_tree_unclosed(SubSeq(stac, 1, Len(stac) - 1),
                            Append(top[2], TTGroup(top[1], current, None)),
                            report_error(Some("span"), r, "Unclosed group"))

type_tree(args, r) ==
    LET l == type_tree_args(args, 1, <<>>, <<>>, r)
    IN  type_tree_unclosed(l.stac, l.current, l.ret)

RECURSIVE un_tree_type(_)
un_tree_type(tok) ==
    IF tok = <<>> THEN <<>>
    ELSE LET tt == Head(tok) IN
         (IF tt.node = "Group"
          THEN <<tt.tok>> \o un_tree_type(tt.children) \o tt.close
          ELSE <<tt.tok>>)
         \o un_tree_type(Tail(tok))

is_decl_kw(kw) ==
    kw \in {"struct", "enum", "union", "type", "fn", "mod", "trait"}

get_tt_punct(t, c) == t.node = "Token" /\ is_punct(t.tok, c)

get_decl_ident(t) == t.node = "Token" /\ t.tok.k = "ident" /\ is_decl_kw(t.tok.v)

-----------------------------------------------------------------------------
(* The declaration parser (venial), as far as the flattener relies on it.   *)
(* A Declaration is a record                                                *)
(*   [kind, attributes, vis_marker, name, generic_params, fields, variants, *)
(*    initializer_ty, tk_semicolon]                                         *)
(* with kind "Struct", "Enum", "Union", "TyDefinition" or "Other".          *)

AttrValue(kind, delim, tokens) == [kind |-> kind, delim |-> delim, tokens |-> tokens]

\* the attribute written as # [ path value ]
parse_attribute(group) ==
    LET g   == group.g
        IsV(t) == t.k = "group" \/ is_punct(t, "=")
        p   == Position(g, IsV)
    IN  [tk_brackets |-> group.v,
         path  |-> IF p = 0 THEN g ELSE SubSeq(g, 1, p - 1),
         value |-> IF p = 0 THEN AttrValue("Empty", "", <<>>)
                   ELSE IF g[p].k = "group" THEN AttrValue("Group", g[p].v, g[p].g)
                   ELSE AttrValue("Equals", "=", SubSeq(g, p + 1, Len(g)))]

get_value_tokens(attr) == attr.value.tokens

attribute_to_tokens(attr) ==
    <<Punct("#"),
      Group(attr.tk_brackets,
            attr.path \o
            (CASE attr.value.kind = "Empty"  -> <<>>
               [] attr.value.kind = "Group"  -> <<Group(attr.value.delim, attr.value.tokens)>>
               [] attr.value.kind = "Equals" -> <<Punct("=")>> \o attr.value.tokens))>>

RECURSIVE attributes_to_tokens(_)
attributes_to_tokens(attrs) ==
    IF attrs = <<>> THEN <<>>
    ELSE attribute_to_tokens(Head(attrs)) \o attributes_to_tokens(Tail(attrs))

RECURSIVE consume_attributes(_, _, _)
consume_attributes(toks, i, acc) ==
    IF i + 1 <= Len(toks) /\ is_punct(toks[i], "#") /\ toks[i + 1].k = "group"
       /\ toks[i + 1].v = "["
    THEN consume_attributes(toks, i + 2, Append(acc, parse_attribute(toks[i + 1])))
    ELSE [i |-> i, attrs |-> acc]

VisMarker(t1, t2) == [tk_token1 |-> t1, tk_token2 |-> t2]

consume_vis_marker(toks, i) ==
    IF i <= Len(toks) /\ is_ident(toks[i], "pub")
    THEN IF i + 1 <= Len(toks) /\ toks[i + 1].k = "group" /\ toks[i + 1].v = "("
         THEN [i |-> i + 2, vis |-> Some(VisMarker(toks[i], Some(toks[i + 1])))]
         ELSE [i |-> i + 1, vis |-> Some(VisMarker(toks[i], None))]
    ELSE [i |-> i, vis |-> None]

vis_to_tokens(vis) ==
    IF vis = None THEN <<>> ELSE <<vis[1].tk_token1>> \o vis[1].tk_token2

\* the index of the first comma (or c) outside angle brackets from i on, Len+1 if none
RECURSIVE scan_until(_, _, _, _)
scan_until(toks, i, depth, c) ==
    IF i > Len(toks) THEN i
    ELSE IF depth = 0 /\ is_punct(toks[i], c) THEN i
    ELSE IF is_punct(toks[i], "<") THEN scan_until(toks, i + 1, depth + 1, c)
    ELSE IF is_punct(toks[i], ">") /\ depth > 0 THEN scan_until(toks, i + 1, depth - 1, c)
    ELSE scan_until(toks, i + 1, depth, c)

\* the index of the > closing the < at i - 1, Len+1 if none
RECURSIVE scan_close(_, _, _)
scan_close(toks, i, depth) ==
    IF i > Len(toks) THEN i
    ELSE IF is_punct(toks[i], ">")
         THEN IF depth = 0 THEN i ELSE scan_close(toks, i + 1, depth - 1)
    ELSE IF is_punct(toks[i], "<") THEN scan_close(toks, i + 1, depth + 1)
    ELSE scan_close(toks, i + 1, depth)

Field(attrs, vis, name, ty, comma) ==
    [attributes |-> attrs, vis_marker |-> vis, name |-> name, ty |-> ty,
     tk_comma |-> comma]

\* name : type , ...   (named = TRUE)   or   type , ...   (named = FALSE)
RECURSIVE parse_fields(_, _, _, _)
parse_fields(toks, i, named, acc) ==
    IF i > Len(toks) THEN [ok |-> TRUE, fields |-> acc]
    ELSE LET field(a, v, t0, e) ==
                 LET hasName == v.i + 1 <= Len(toks) /\ toks[v.i].k = "ident"
                                /\ is_punct(toks[v.i + 1], ":")
                 IN  IF named /\ ~hasName THEN [ok |-> FALSE, fields |-> acc]
                     ELSE IF t0 >= e THEN [ok |-> FALSE, fields |-> acc]
                     ELSE parse_fields(toks, e + 1, named,
                              Append(acc, Field(a.attrs, v.vis,
                                          IF named THEN toks[v.i].v ELSE "",
                                          SubSeq(toks, t0, e - 1),
                                          IF e <= Len(toks) THEN Some(toks[e]) ELSE None)))
             ty(a, v, t0) == field(a, v, t0, scan_until(toks, t0, 0, ","))
             name(a, v)   == ty(a, v, IF named THEN v.i + 2 ELSE v.i)
             vis(a)       == name(a, consume_vis_marker(toks, a.i))
         IN  vis(consume_attributes(toks, i, <<>>))

Fields(shape, list) == [shape |-> shape, list |-> list]

UnitFields == Fields("Unit", <<>>)

RECURSIVE fields_list_to_tokens(_, _)
fields_list_to_tokens(list, named) ==
    IF list = <<>> THEN <<>>
    ELSE LET f == Head(list) IN
         attributes_to_tokens(f.attributes) \o vis_to_tokens(f.vis_marker)
         \o (IF named THEN <<Ident(f.name), Punct(":")>> ELSE <<>>)
         \o f.ty \o f.tk_comma \o fields_list_to_tokens(Tail(list), named)

fields_to_tokens(fields) ==
    CASE fields.shape = "Unit"  -> <<>>
      [] fields.shape = "Named" -> <<Group("{", fields_list_to_tokens(fields.list, TRUE))>>
      [] fields.shape = "Tuple" -> <<Group("(", fields_list_to_tokens(fields.list, FALSE))>>

\* the fields a body group holds; a struct or variant body is { named } or ( tuple )
parse_body(group) ==
    LET named == group.v = "{"
        body(r) == [ok |-> r.ok /\ group.v \in {"{", "("},
                    fields |-> Fields(IF named THEN "Named" ELSE "Tuple", r.fields)]
    IN  body(parse_fields(group.g, 1, named, <<>>))

Variant(attrs, name, contents, comma) ==
    [attributes |-> attrs, name |-> name, contents |-> contents, tk_comma |-> comma]

RECURSIVE parse_variants(_, _, _)
parse_variants(toks, i, acc) ==
    IF i > Len(toks) THEN [ok |-> TRUE, variants |-> acc]
    ELSE LET variant(a, n, hasBody, e, body) ==
                 IF n > Len(toks) \/ toks[n].k # "ident" \/ ~body.ok
                    \/ (e <= Len(toks) /\ ~is_punct(toks[e], ","))
                 THEN [ok |-> FALSE, variants |-> acc]
                 ELSE parse_variants(toks, e + 1,
                          Append(acc, Variant(a.attrs, toks[n].v, body.fields,
                                      IF e <= Len(toks) THEN Some(toks[e]) ELSE None)))
             contents(a, n, hasBody) ==
                 variant(a, n, hasBody, IF hasBody THEN n + 2 ELSE n + 1,
                         IF hasBody THEN parse_body(toks[n + 1])
                         ELSE [ok |-> TRUE, fields |-> UnitFields])
             name(a, n) ==
                 contents(a, n, n + 1 <= Len(toks) /\ toks[n + 1].k = "group")
             attrs(a) == name(a, a.i)
         IN  attrs(consume_attributes(toks, i, <<>>))

RECURSIVE variants_to_tokens(_)
variants_to_tokens(vs) ==
    IF vs = <<>> THEN <<>>
    ELSE LET v == Head(vs) IN
         attributes_to_tokens(v.attributes) \o <<Ident(v.name)>>
         \o fields_to_tokens(v.contents) \o v.tk_comma \o variants_to_tokens(Tail(vs))

GenericParam(prefix, name, bound, comma) ==
    [tk_prefix |-> prefix, name |-> name, bound |-> bound, tk_comma |-> comma]

\* [prefix] name [: bound] , ...
RECURSIVE parse_generic_params(_, _, _)
parse_generic_params(toks, i, acc) ==
    IF i > Len(toks) THEN [ok |-> TRUE, params |-> acc]
    ELSE LET hasPrefix == is_punct(toks[i], "'") \/ is_ident(toks[i], "const")
             n == IF hasPrefix THEN i + 1 ELSE i
             e == scan_until(toks, n + 1, 0, ",")
             hasBound == n + 1 < e
         IN  IF n > Len(toks) \/ toks[n].k # "ident"
                \/ (hasBound /\ ~is_punct(toks[n + 1], ":"))
             THEN [ok |-> FALSE, params |-> acc]
             ELSE parse_generic_params(toks, e + 1,
                      Append(acc, GenericParam(
                          IF hasPrefix THEN Some(toks[i]) ELSE None,
                          toks[n],
                          IF hasBound THEN Some(SubSeq(toks, n + 1, e - 1)) ELSE None,
                          IF e <= Len(toks) THEN Some(toks[e]) ELSE None)))

GenericParamList(l, params, r) ==
    [tk_l_bracket |-> l, params |-> params, tk_r_bracket |-> r]

\* < params > from i on, if there is a < at i
consume_generic_params(toks, i) ==
    IF i <= Len(toks) /\ is_punct(toks[i], "<")
    THEN LET c == scan_close(toks, i + 1, 0)
             p == parse_generic_params(SubSeq(toks, i + 1, c - 1), 1, <<>>)
         IN  [ok |-> c <= Len(toks) /\ p.ok, i |-> c + 1,
              generic_params |->
                  IF c <= Len(toks)
                  THEN Some(GenericParamList(toks[i], p.params, toks[c]))
                  ELSE None]
    ELSE [ok |-> TRUE, i |-> i, generic_params |-> None]

RECURSIVE params_to_tokens(_)
params_to_tokens(params) ==
    IF params = <<>> THEN <<>>
    ELSE LET gp == Head(params) IN
         gp.tk_prefix \o <<gp.name>>
         \o (IF gp.bound = None THEN <<>> ELSE gp.bound[1])
         \o gp.tk_comma \o params_to_tokens(Tail(params))

generic_params_to_tokens(gl) ==
    IF gl = None THEN <<>>
    ELSE <<gl[1].tk_l_bracket>> \o params_to_tokens(gl[1].params) \o <<gl[1].tk_r_bracket>>

Declaration(kind, attrs, vis, name, gp, fields, variants, eq, init, semi) ==
    [kind |-> kind, attributes |-> attrs, vis_marker |-> vis, name |-> name,
     generic_params |-> gp, fields |-> fields, variants |-> variants,
     tk_equals |-> eq, initializer_ty |-> init, tk_semicolon |-> semi]

NoDeclaration ==
    Declaration("Other", <<>>, None, Ident(""), None, UnitFields, <<>>, None, <<>>, None)

Parsed(status, decl) == [status |-> status, decl |-> decl]

\* the tokens left after the declaration ended before index e
parse_end(toks, e, decl) ==
    IF e > Len(toks) \/ venial = "ignore" THEN Parsed("Ok", decl)
    ELSE IF venial = "error" THEN Parsed("Err", NoDeclaration)
    ELSE Parsed("Panic", NoDeclaration)

\* the item after its attributes a, visibility v and generic parameters g
parse_item(toks, a, v, g) ==
    LET k  == v.i
        n  == k + 1
        b  == g.i
        kw == toks[k].v
        D(kind, fields, variants, eq, init, semi) ==
            Declaration(kind, a.attrs, v.vis, toks[n], g.generic_params,
                        fields, variants, eq, init, semi)
        semiAt(i) == IF i <= Len(toks) /\ is_punct(toks[i], ";")
                     THEN Some(toks[i]) ELSE None
        fields(body, semi) ==
            IF ~body.ok THEN Parsed("Err", NoDeclaration)
            ELSE parse_end(toks, b + 1 + Len(semi),
                           D(IF kw = "struct" THEN "Struct" ELSE "Union",
                             body.fields, <<>>, None, <<>>, semi))
        variants(vs) ==
            IF ~vs.ok THEN Parsed("Err", NoDeclaration)
            ELSE parse_end(toks, b + 1,
                           D("Enum", UnitFields, vs.variants, None, <<>>, None))
        IsSemi(t) == is_punct(t, ";")
        alias(e) ==
            IF e <= b THEN Parsed("Err", NoDeclaration)
            ELSE parse_end(toks, e + 1,
                           D("TyDefinition", UnitFields, <<>>, Some(toks[b]),
                             SubSeq(toks, b + 1, e - 1), Some(toks[e])))
    IN  IF n > Len(toks) \/ toks[k].k # "ident" \/ toks[n].k # "ident" \/ ~g.ok
        THEN Parsed("Err", NoDeclaration)
        ELSE IF kw \in {"fn", "mod", "trait"}
        THEN Parsed("Ok", D("Other", UnitFields, <<>>, None, <<>>, None))
        ELSE IF b > Len(toks) THEN Parsed("Err", NoDeclaration)
        ELSE IF kw = "struct" /\ is_punct(toks[b], ";")
        THEN parse_end(toks, b + 1,
                       D("Struct", UnitFields, <<>>, None, <<>>, Some(toks[b])))
        ELSE IF kw \in {"struct", "union"} /\ toks[b].k = "group"
                /\ (toks[b].v = "{" \/ (kw = "struct" /\ toks[b].v = "("))
        THEN fields(parse_body(toks[b]), IF kw = "struct" THEN semiAt(b + 1) ELSE None)
        ELSE IF kw = "enum" /\ toks[b].k = "group" /\ toks[b].v = "{"
        THEN variants(parse_variants(toks[b].g, 1, <<>>))
        ELSE IF kw = "type" /\ is_punct(toks[b], "=")
        THEN alias(Position(toks, IsSemi))
        ELSE Parsed("Err", NoDeclaration)

\* the declaration after its attributes a and visibility v: keyword, name, generics
parse_named(toks, a, v) ==
    parse_item(toks, a, v, consume_generic_params(toks, v.i + 2))

\* the declaration after its attributes a
parse_visible(toks, a) == parse_named(toks, a, consume_vis_marker(toks, a.i))

parse_declaration(toks) == parse_visible(toks, consume_attributes(toks, 1, <<>>))

declaration_keyword(decl) ==
    CASE decl.kind = "Struct" -> "struct"
      [] decl.kind = "Enum" -> "enum"
      [] decl.kind = "Union" -> "union"
      [] decl.kind = "TyDefinition" -> "type"

to_tokens(decl) ==
    attributes_to_tokens(decl.attributes) \o vis_to_tokens(decl.vis_marker)
    \o <<Ident(declaration_keyword(decl)), decl.name>>
    \o generic_params_to_tokens(decl.generic_params)
    \o (CASE decl.kind \in {"Struct", "Union"} -> fields_to_tokens(decl.fields)
          [] decl.kind = "Enum" -> <<Group("{", variants_to_tokens(decl.variants))>>
          [] decl.kind = "TyDefinition" -> decl.tk_equals \o decl.initializer_ty)
    \o decl.tk_semicolon

-----------------------------------------------------------------------------
(* The flattener *)

CrateName == "structstruck"

check_crate_attr(attr, attr_name) ==
    /\ Len(attr.path) = 4
    /\ is_ident(attr.path[1], CrateName)
    /\ is_punct(attr.path[2], ":")
    /\ is_punct(attr.path[3], ":")
    /\ is_ident(attr.path[4], attr_name)

\* NameHints::from: the hints, and the attributes without the long_names markers
NameHints_from(parent_name, attributes) ==
    LET IsLong(a) == check_crate_attr(a, "long_names") IN
    [hints |-> NameHintsNew(\E i \in 1..Len(attributes) : IsLong(attributes[i]),
                            parent_name),
     attributes |-> SelectSeq(attributes, LAMBDA a : ~IsLong(a))]

hack_append_type_decl_semicolon(input_vec) ==
    LET is_type_decl ==
            /\ \E i \in 1..Len(input_vec) : is_ident(input_vec[i], "type")
            /\ \A i \in 1..Len(input_vec) :
                   \/ is_ident(input_vec[i], "type")
                   \/ ~(input_vec[i].k = "ident" /\ is_decl_kw(input_vec[i].v))
    IN  IF is_type_decl THEN Append(input_vec, Punct(";")) ELSE input_vec

make_pub_marker == VisMarker(Ident("pub"), None)

is_plain_pub(vis_marker) ==
    /\ vis_marker # None
    /\ is_ident(vis_marker[1].tk_token1, "pub")
    /\ vis_marker[1].tk_token2 = None

get_or_insert_with(vis_marker, marker) ==
    IF vis_marker = None THEN Some(marker) ELSE vis_marker

\* the number of leading  # ! [..]  triples of a brace group's stream
RECURSIVE inner_attrs(_, _)
inner_attrs(gt, i) ==
    IF i + 2 <= Len(gt) /\ is_punct(gt[i], "#") /\ is_punct(gt[i + 1], "!")
       /\ gt[i + 2].k = "group"
    THEN inner_attrs(gt, i + 3) ELSE (i - 1) \div 3

RECURSIVE move_out_prefix(_)
move_out_prefix(input_) ==
    IF input_ = <<>> THEN <<>>
    ELSE LET e == Head(input_)
             n == inner_attrs(e.g, 1)
         IN  (IF e.k = "group" /\ e.v = "{"
              THEN Concat([j \in 1..n |-> <<e.g[3 * j - 2], e.g[3 * j]>>])
              ELSE <<>>)
             \o move_out_prefix(Tail(input_))

move_out_inner_attrs(input_) ==
    LET strip(e) == IF e.k = "group" /\ e.v = "{"
                    THEN Group(e.v, SubSeq(e.g, 3 * inner_attrs(e.g, 1) + 1, Len(e.g)))
                    ELSE e
    IN  move_out_prefix(input_) \o [i \in 1..Len(input_) |-> strip(input_[i])]

DeprecatedItem == [t |-> "deprecated"]

DeclItem(parsed) == [t |-> "decl", decl |-> parsed, tokens |-> to_tokens(parsed)]

report_strikethrough_deprecated(r) == Emit(r, DeprecatedItem)

\* parsed.to_tokens(ret), emitted ahead of what ret holds
append_declaration_first(r, parsed) ==
    IF r.panic THEN r ELSE [r EXCEPT !.out = <<DeclItem(parsed)>> \o @]

\* parsed.to_tokens(ret)
append_declaration(r, parsed) == Emit(r, DeclItem(parsed))

\* the retain loop of strike_through_attributes over dec_attrs[i..]
RECURSIVE strike_retain(_, _, _, _, _)
strike_retain(dec_attrs, i, kept, strike, r) ==
    IF i > Len(dec_attrs) THEN [kept |-> kept, strike_attrs |-> strike, ret |-> r]
    ELSE LET attr  == dec_attrs[i]
             each  == check_crate_attr(attr, "each")
             strikethrough == Len(attr.path) = 1 /\ is_ident(attr.path[1], "strikethrough")
             r1    == IF strikethrough THEN report_strikethrough_deprecated(r) ELSE r
         IN  IF strikethrough \/ each
             THEN IF attr.value.kind = "Group"
                  THEN strike_retain(dec_attrs, i + 1, kept,
                           Append(strike, [tk_brackets |-> attr.value.delim,
                                           path |-> attr.value.tokens,
                                           value |-> AttrValue("Empty", "", <<>>)]),
                           r1)
                  ELSE strike_retain(dec_attrs, i + 1, kept, strike,
                           report_error(stream_span(get_value_tokens(attr)), r1,
                                        "#[structstruck::each ...]: ... must be a [group]"))
             ELSE strike_retain(dec_attrs, i + 1, Append(kept, attr), strike, r1)

\* the carried attributes spliced after the declaration's own
strike_through_attributes_after(dec_attrs, strike, r) ==
    LET l == strike_retain(dec_attrs, 1, <<>>, strike, r)
    IN  [dec_attrs |-> l.kept \o l.strike_attrs, strike_attrs |-> l.strike_attrs,
         ret |-> l.ret]

strike_through_attributes(dec_attrs, strike, r) ==
    LET l == strike_retain(dec_attrs, 1, <<>>, strike, r)
    IN  [dec_attrs |-> l.strike_attrs \o l.kept, strike_attrs |-> l.strike_attrs,
         ret |-> l.ret]

\* the parameter list as it was declared, bounds and prefixes kept
reproject_generics_declared(gl) ==
    <<gl.tk_l_bracket>> \o params_to_tokens(gl.params) \o <<gl.tk_r_bracket>>

\* the reference to a lifted declaration's generics: bounds and ident prefixes dropped
reproject_generics(gl) ==
    <<gl.tk_l_bracket>>
    \o params_to_tokens([i \in 1..Len(gl.params) |->
           [gl.params[i] EXCEPT
               !.tk_prefix = IF @ # None /\ @[1].k = "punct" THEN @ ELSE None,
               !.bound = None]])
    \o <<gl.tk_r_bracket>>

RECURSIVE recurse_through_definition(_, _, _, _)
RECURSIVE recurse_through_parsed(_, _, _, _, _)
RECURSIVE recurse_through_struct_fields(_, _, _, _, _)
RECURSIVE enum_variants(_, _, _, _, _, _)
RECURSIVE named_struct_fields_from(_, _, _, _, _, _)
RECURSIVE tuple_struct_fields_from(_, _, _, _, _, _)
RECURSIVE recurse_through_type_list(_, _, _, _, _, _, _)
RECURSIVE recurse_through_type(_, _, _, _, _, _, _)
RECURSIVE un_type_tree(_, _, _, _, _, _)

\* un_type_tree with the closure recurse_through_type passes it:
\* every bracket group is scanned as a type list of its own, with pub_hint false
un_type_tree(tok, strike, r, name_hint, tr, path_) ==
    IF tok = <<>> THEN [ret |-> r, type_ret |-> tr]
    ELSE LET tt == Head(tok) IN
         IF tt.node = "Group"
         THEN LET rest(f) == un_type_tree(Tail(tok), strike, f.ret, name_hint,
                                          f.type_ret \o tt.close, path_)
              IN  rest(recurse_through_type_list(tt.children, strike, r, name_hint,
                                                 FALSE, Append(tr, tt.tok), path_))
         ELSE un_type_tree(Tail(tok), strike, r, name_hint, Append(tr, tt.tok), path_)

recurse_through_type(tok, strike, r, name_hint, pub_hint, tr, path_) ==
    LET IsColon(t) == get_tt_punct(t, ":")
        lone  == \E i \in 2..(Len(tok) - 1) :
                     IsColon(tok[i]) /\ ~IsColon(tok[i - 1]) /\ ~IsColon(tok[i + 1])
        r1    == IF lone
                 THEN report_error(Some("span"), r,
                          "Colon in top level of type expression. Did you forget a comma somewhere?")
                 ELSE r
        kw    == Position(tok, get_decl_ident)
    IN  IF kw # 0
        THEN LET dup  == \E i \in (kw + 1)..Len(tok) : get_decl_ident(tok[i])
                 r2   == IF dup
                         THEN report_error(Some("span"), r1,
                                  "More than one struct/enum/.. declaration found")
                         ELSE r1
                 decl == un_tree_type(tok)
                 IsKw(t) == t.k = "ident" /\ is_decl_kw(t.v)
                 pos  == Position(decl, IsKw)
                 named == pos + 1 <= Len(decl) /\ decl[pos + 1].k = "ident"
                 r3   == IF ~named /\ name_hint = None
                         THEN report_error(stream_span(decl), r2,
                                  "No context for naming substructure")
                         ELSE r2
                 name == IF named THEN decl[pos + 1]
                         ELSE IF name_hint # None THEN Ident(name_hint[1])
                         ELSE Punct("!")
                 newthing == IF named THEN decl
                             ELSE SubSeq(decl, 1, pos) \o <<name>>
                                  \o SubSeq(decl, pos + 1, Len(decl))
                 lifted(d) ==
                     [ret |-> d.ret,
                      type_ret |-> Append(tr, name)
                                   \o (IF d.generics # None
                                       THEN reproject_generics(d.generics[1]) ELSE <<>>)]
             IN  lifted(recurse_through_definition(newthing, strike, pub_hint, r3))
        ELSE un_type_tree(tok, strike, r1, name_hint, tr, path_)

recurse_through_type_list(tok, strike, r, name_hint, pub_hint, tr, path_) ==
    LET IsComma(t) == get_tt_punct(t, ",")
        end     == Position(tok, IsComma)
        current == SubSeq(tok, 1, IF end = 0 THEN Len(tok) ELSE end - 1)
        rest(one) ==
            IF end # 0
            THEN recurse_through_type_list(SubSeq(tok, end + 1, Len(tok)), strike, one.ret,
                                           name_hint, pub_hint,
                                           Append(one.type_ret, tok[end].tok), path_)
            ELSE one
    IN  rest(recurse_through_type(current, strike, r, name_hint, pub_hint, tr, path_))

strip_raw(field_name) ==
    IF Len(field_name) >= 2 /\ SubSeq(field_name, 1, 2) = "r#"
    THEN SubSeq(field_name, 3, Len(field_name)) ELSE field_name

\* the loop of named_struct_fields from field i on
named_struct_fields_from(list, i, strike, r, in_pub_enum, path_) ==
    IF i > Len(list) THEN [ret |-> r, list |-> list]
    ELSE LET field == list[i]
             p     == with_field_name(path_, strip_raw(field.name))
             name_hint == get_name_hint(p, None)
             tt    == type_tree(field.ty, Ident_new(name_hint, r))
             rest(t) == named_struct_fields_from([list EXCEPT ![i].ty = t.type_ret], i + 1,
                                                 strike, t.ret, in_pub_enum, path_)
         IN  rest(recurse_through_type_list(tt.tree, strike, tt.ret, Some(name_hint),
                      is_plain_pub(field.vis_marker) \/ in_pub_enum, <<>>, p))

named_struct_fields(list, strike, r, in_pub_enum, path_) ==
    named_struct_fields_from(list, 1, strike, r, in_pub_enum, path_)

\* the loop of tuple_struct_fields from field i on (position i - 1)
tuple_struct_fields_from(list, i, strike, r, in_pub_enum, path_) ==
    IF i > Len(list) THEN [ret |-> r, list |-> list]
    ELSE LET field == list[i]
             tt    == type_tree(field.ty, r)
             IsPub(t) == t.node = "Token" /\ is_ident(t.tok, "pub")
             hasPub == \E j \in 1..Len(tt.tree) : IsPub(tt.tree[j])
             vtok  == vis_to_tokens(field.vis_marker)
             ttok  == IF hasPub THEN tt.tree
                      ELSE [j \in 1..Len(vtok) |-> TTToken(vtok[j])] \o tt.tree
             vis   == IF hasPub THEN field.vis_marker ELSE None
             name_hint == get_name_hint(path_, Some(i - 1))
             rest(t) == tuple_struct_fields_from(
                            [list EXCEPT ![i].ty = t.type_ret, ![i].vis_marker = vis],
                            i + 1, strike, t.ret, in_pub_enum, path_)
         IN  rest(recurse_through_type_list(ttok, strike, Ident_new(name_hint, tt.ret),
                      Some(name_hint), is_plain_pub(vis) \/ in_pub_enum, <<>>, path_))

tuple_struct_fields(list, strike, r, in_pub_enum, path_) ==
    tuple_struct_fields_from(list, 1, strike, r, in_pub_enum, path_)

recurse_through_struct_fields(fields, strike, r, in_pub_enum, path_) ==
    IF fields.shape = "Unit" THEN [ret |-> r, fields |-> fields]
    ELSE LET with_list(l) == [ret |-> l.ret, fields |-> Fields(fields.shape, l.list)]
         IN  IF fields.shape = "Named"
             THEN with_list(named_struct_fields(fields.list, strike, r, in_pub_enum, path_))
             ELSE with_list(tuple_struct_fields(fields.list, strike, r, in_pub_enum, path_))

\* the loop over an enum's variants from variant i on
enum_variants(variants, i, strike, r, in_pub_enum, path_) ==
    IF i > Len(variants) THEN [ret |-> r, variants |-> variants]
    ELSE LET v == variants[i]
             rest(f) == enum_variants([variants EXCEPT ![i].contents = f.fields], i + 1,
                                      strike, f.ret, in_pub_enum, path_)
         IN  rest(recurse_through_struct_fields(v.contents, strike, r, in_pub_enum,
                      with_variant_name(path_, v.name)))

\* recurse_through_definition from the parser's answer p on
recurse_through_parsed(span, p, strike, make_pub_, r) ==
    LET parsed == p.decl
        sa     == strike_through_attributes(parsed.attributes, strike, r)
        nh     == NameHints_from(parsed.name.v, sa.dec_attrs)
        vis    == IF make_pub_
                  THEN get_or_insert_with(parsed.vis_marker, make_pub_marker)
                  ELSE parsed.vis_marker
        tt     == type_tree(parsed.initializer_ty, sa.ret)
        done(r1, d) == [ret |-> append_declaration(r1, d), generics |-> d.generic_params]
        struct_(f) ==
            done(f.ret,
                 [parsed EXCEPT !.attributes = nh.attributes, !.fields = f.fields,
                      !.vis_marker = vis,
                      !.tk_semicolon =
                          IF f.fields.shape = "Tuple" /\ @ = None
                          THEN Some(Punct(";")) ELSE @])
        enum_(e) ==
            done(e.ret,
                 [parsed EXCEPT !.attributes = nh.attributes,
                      !.variants = e.variants, !.vis_marker = vis])
        union_(u) ==
            done(u.ret,
                 [parsed EXCEPT !.attributes = nh.attributes,
                      !.fields = Fields("Named", u.list), !.vis_marker = vis])
        type_(t) ==
            done(t.ret,
                 [parsed EXCEPT !.attributes = nh.attributes,
                      !.initializer_ty = t.type_ret, !.vis_marker = vis])
    IN  IF p.status = "Panic" THEN [ret |-> Panic(r), generics |-> None]
        ELSE IF p.status = "Err"
        THEN [ret |-> report_error(span, r, "ParseFailure"), generics |-> None]
        ELSE IF parsed.kind = "Struct"
        THEN struct_(recurse_through_struct_fields(parsed.fields, sa.strike_attrs,
                                                   sa.ret, FALSE, nh.hints))
        ELSE IF parsed.kind = "Enum"
        THEN enum_(enum_variants(parsed.variants, 1, sa.strike_attrs, sa.ret,
                                 is_plain_pub(parsed.vis_marker), nh.hints))
        ELSE IF parsed.kind = "Union"
        THEN union_(named_struct_fields(parsed.fields.list, sa.strike_attrs,
                                        sa.ret, FALSE, nh.hints))
        ELSE IF parsed.kind = "TyDefinition"
        THEN type_(recurse_through_type_list(tt.tree, sa.strike_attrs, tt.ret, None,
                                             FALSE, <<>>, nh.hints))
        ELSE [ret |-> report_error(span, r,
                          "Unsupported declaration (only struct, enum, and union are allowed)"),
              generics |-> None]

recurse_through_definition(input_, strike, make_pub_, r) ==
    recurse_through_parsed(
        stream_span(input_),
        parse_declaration(move_out_inner_attrs(hack_append_type_decl_semicolon(input_))),
        strike, make_pub_, r)

-----------------------------------------------------------------------------
(* The inputs: declaration trees as a user writes them, and their tokens.   *)
(* A tree node is                                                           *)
(*   [id, tag, attrs, vis, kw, name, gen, shape, fields, semi]              *)
(* and a field (or, in an enum, a variant holding one field) is             *)
(*   [vis, name, variant, wrap, children]                                   *)
(* where wrap says how the field's type holds the nested declarations, id   *)
(* is the node's place in the tree and tag, when not "", is an attribute    *)
(* #[tag] written on the declaration to tell it from the others.            *)

Node(id, tag, attrs, vis, kw, name, gen, shape, fields, semi) ==
    [id |-> id, tag |-> tag, attrs |-> attrs, vis |-> vis, kw |-> kw, name |-> name,
     gen |-> gen, shape |-> shape, fields |-> fields, semi |-> semi]

FieldNode(vis, name, variant, wrap, children) ==
    [vis |-> vis, name |-> name, variant |-> variant, wrap |-> wrap,
     children |-> children]

SrcAttr(kind, p) == [kind |-> kind, p |-> p]

CratePath(name) == <<Ident(CrateName), Punct(":"), Punct(":"), Ident(name)>>

RenderAttr(a) ==
    <<Punct("#"),
      Group("[",
        CASE a.kind = "own"           -> <<Ident(a.p)>>
          [] a.kind = "each"          -> CratePath("each") \o <<Group("[", <<Ident(a.p)>>)>>
          [] a.kind = "strikethrough" -> <<Ident("strikethrough"), Group("[", <<Ident(a.p)>>)>>
          [] a.kind = "long"          -> CratePath("long_names")
          [] a.kind = "each_long"     -> CratePath("each") \o <<Group("[", CratePath("long_names"))>>
          [] a.kind = "each_eq"       -> CratePath("each") \o <<Punct("="), Ident(a.p)>>
          [] a.kind = "each_bare"     -> CratePath("each")
          [] a.kind = "inner"         -> <<Ident(a.p)>>)>>

RenderVis(vis) ==
    CASE vis = ""      -> <<>>
      [] vis = "pub"   -> <<Ident("pub")>>
      [] vis = "crate" -> <<Ident("pub"), Group("(", <<Ident("crate")>>)>>

\* the generic parameter lists the inputs use
RenderGen(gen) ==
    CASE gen = ""       -> <<>>
      [] gen = "T"      -> <<Punct("<"), Ident("T"), Punct(">")>>
      [] gen = "TB"     -> <<Punct("<"), Ident("T"), Punct(":"), Ident("Bound"), Punct(">")>>
      [] gen = "aT"     -> <<Punct("<"), Punct("'"), Ident("a"), Punct(","),
                             Ident("T"), Punct(":"), Ident("Into"), Punct("<"),
                             Ident("u8"), Punct(">"), Punct(">")>>
      [] gen = "constN" -> <<Punct("<"), Ident("const"), Ident("N"), Punct(":"),
                             Ident("usize"), Punct(","), Punct(">")>>

RECURSIVE Render(_)
RECURSIVE RenderType(_)
RECURSIVE RenderFields(_, _)

RenderType(f) ==
    CASE f.wrap = "leaf" -> <<Ident("u8")>>
      [] f.wrap = "path" -> <<Ident("std"), Punct(":"), Punct(":"), Ident("Vec"),
                              Punct("<"), Ident("u8"), Punct(","), Ident("u8"), Punct(">")>>
      [] f.wrap = "arrow" -> <<Ident("Box"), Punct("<"), Ident("dyn"), Ident("Fn"),
                               Group("(", <<Ident("u8")>>), Punct("-"), Punct(">"),
                               Ident("u8"), Punct(">")>>
      [] f.wrap = "top"  -> Render(f.children[1])
      [] f.wrap = "vec"  -> <<Ident("Vec"), Punct("<")>> \o Render(f.children[1])
                            \o <<Punct(">")>>
      [] f.wrap = "res"  -> <<Ident("Res"), Punct("<")>> \o Render(f.children[1])
                            \o <<Punct(",")>> \o Render(f.children[2]) \o <<Punct(">")>>
      [] f.wrap = "adj"  -> Render(f.children[1]) \o Render(f.children[2])

\* the fields of a body, a comma between them
RenderFields(fields, shape) ==
    IF fields = <<>> THEN <<>>
    ELSE LET f == Head(fields)
             one == RenderVis(f.vis)
                    \o (IF shape = "named" THEN <<Ident(f.name), Punct(":")>> ELSE <<>>)
                    \o RenderType(f)
             var == IF f.variant = "" THEN one
                    ELSE <<Ident(f.variant)>>
                         \o (CASE shape = "enum_named" ->
                                     <<Group("{", RenderVis(f.vis)
                                         \o <<Ident(f.name), Punct(":")>> \o RenderType(f))>>
                               [] shape = "enum_tuple" ->
                                     <<Group("(", RenderVis(f.vis) \o RenderType(f))>>
                               [] shape = "enum_unit" -> <<>>)
         IN  var \o (IF Len(fields) > 1 THEN <<Punct(",")>> ELSE <<>>)
             \o RenderFields(Tail(fields), shape)

Render(n) ==
    LET inner == SelectSeq(n.attrs, LAMBDA a : a.kind = "inner")
        outer == SelectSeq(n.attrs, LAMBDA a : a.kind # "inner")
        bang(a) == <<Punct("#"), Punct("!"), RenderAttr(a)[2]>>
    IN  (IF n.tag = "" THEN <<>> ELSE RenderAttr(SrcAttr("own", n.tag)))
        \o Concat([i \in 1..Len(outer) |-> RenderAttr(outer[i])])
        \o RenderVis(n.vis)
        \o <<Ident(n.kw)>>
        \o (IF n.name = "" THEN <<>> ELSE <<Ident(n.name)>>)
        \o RenderGen(n.gen)
        \o (CASE n.shape = "unit"  -> <<>>
              [] n.shape = "tuple" -> <<Group("(", RenderFields(n.fields, n.shape))>>
              [] n.shape = "alias" -> <<Punct("=")>> \o RenderType(n.fields[1])
              [] OTHER -> <<Group("{", Concat([i \in 1..Len(inner) |-> bang(inner[i])])
                                       \o RenderFields(n.fields, n.shape))>>)
        \o (IF n.semi THEN <<Punct(";")>> ELSE <<>>)

\* the nodes of a tree, every nested declaration before the one holding it,
\* fields and variants left to right
RECURSIVE PostOrder(_)
PostOrder(n) ==
    Concat([i \in 1..Len(n.fields) |->
              Concat([j \in 1..Len(n.fields[i].children) |->
                        PostOrder(n.fields[i].children[j])])])
    \o <<n>>

\* the sequences whose i-th element is drawn from sets[i]
RECURSIVE Product(_)
Product(sets) ==
    IF sets = <<>> THEN {<<>>}
    ELSE {<<h>> \o t : h \in Head(sets), t \in Product(Tail(sets))}

FieldNames == <<"bar", "b_c", "r#fn", "x4">>

VariantNames == <<"Baz", "Vb", "Vc", "Vd">>

Digit(i) == ToString(i)

\* A family of trees is given by one record per nesting level:
\*   [tagged, attrs, vis, kinds, names, gens, semi, nfields, fieldVis, wraps]
\* each a set of choices; kinds are <<keyword, shape>> pairs, and a name is
\* "anon" (none written), "named" (Quux for the root, N<id> below it) or the
\* name itself.
RECURSIVE Gen(_, _, _)
RECURSIVE GenFields(_, _, _, _)

GenChildren(l, id, w, P) ==
    IF w \in {"leaf", "path", "arrow"} THEN {<<>>}
    ELSE IF l >= Len(P) THEN {}
    ELSE IF w \in {"top", "vec"} THEN {<<c>> : c \in Gen(l + 1, id, P)}
    ELSE {<<c1, c2>> : c1 \in Gen(l + 1, id \o "x", P), c2 \in Gen(l + 1, id \o "y", P)}

\* A declaration that opens a tuple field cannot carry an attribute of its
\* own (the parser gives a leading attribute to the field), so it is told
\* from the others by its name.
Untag(c) == [c EXCEPT !.tag = "", !.name = IF @ = "" THEN "N" \o c.id ELSE @]

OpensTupleField(shape, w) == shape \in {"tuple", "enum_tuple"} /\ w \in {"top", "adj"}

GenFields(l, id, shape, P) ==
    LET p == P[l]
        wrapOf(w) == IF shape = "enum_unit" THEN "leaf" ELSE w
        one(i) == UNION {
            {FieldNode(v,
                       IF shape \in {"named", "enum_named"} THEN FieldNames[i] ELSE "",
                       IF shape \in {"enum_named", "enum_tuple", "enum_unit"}
                       THEN VariantNames[i] ELSE "",
                       wrapOf(w),
                       [k \in DOMAIN cs |->
                          IF k = 1 /\ OpensTupleField(shape, wrapOf(w)) /\ cs[k].tag # ""
                          THEN Untag(cs[k]) ELSE cs[k]]) :
                 v \in p.fieldVis,
                 cs \in GenChildren(l, id \o Digit(i), wrapOf(w), P)} :
            w \in p.wraps}
    IN  IF shape = "unit" THEN {<<>>}
        ELSE IF shape = "alias" THEN Product(<<one(1)>>)
        ELSE UNION {Product([i \in 1..n |-> one(i)]) : n \in p.nfields}

Gen(l, id, P) ==
    LET p == P[l] IN
    UNION {
        {Node(id, IF p.tagged THEN id ELSE "", attrs, vis, ks[1],
              IF nm = "anon" THEN ""
              ELSE IF nm # "named" THEN nm
              ELSE IF l = 1 THEN "Quux" ELSE "N" \o id,
              gen, ks[2], fields,
              IF ks[2] \in {"tuple", "alias"} THEN semi ELSE ks[2] = "unit") :
             attrs \in p.attrs, vis \in p.vis, nm \in p.names,
             gen \in p.gens, semi \in p.semi, fields \in GenFields(l, id, ks[2], P)} :
        ks \in p.kinds}

Level(tagged, attrs, vis, kinds, names, gens, semi, nfields, fieldVis, wraps) ==
    [tagged |-> tagged, attrs |-> attrs, vis |-> vis, kinds |-> kinds,
     names |-> names, gens |-> gens, semi |-> semi, nfields |-> nfields,
     fieldVis |-> fieldVis, wraps |-> wraps]

StructNamed == <<"struct", "named">>

StructTuple == <<"struct", "tuple">>

StructUnit == <<"struct", "unit">>

EnumNamed == <<"enum", "enum_named">>

EnumTuple == <<"enum", "enum_tuple">>

EnumUnit == <<"enum", "enum_unit">>

UnionNamed == <<"union", "named">>

TypeAlias == <<"type", "alias">>

\* declarations the flattener does not take:  mod N;  and  fn N(..)
ModUnit == <<"mod", "unit">>

FnTuple == <<"fn", "tuple">>

\* an enum written without its body:  enum N;
EnumBodiless == <<"enum", "unit">>


-----------------------------------------------------------------------------
(* The state machines *)

VenialWorlds == {"ignore", "error", "panic"}

Idle ==
    /\ ret = EmptyRet /\ generics = None /\ tree = <<>> /\ type_ret = <<>>

\* the macro's entry: a declaration tree of S is written and handed over
InitFlatten(S, pubs) ==
    /\ pc = "start"
    /\ src \in S
    /\ input = Render(src)
    /\ strike_attrs = <<>>
    /\ make_pub \in pubs
    /\ venial \in VenialWorlds
    /\ Idle

\* recurse_through_definition, the whole call
Flatten ==
    /\ pc = "start"
    /\ \E d \in {recurse_through_definition(input, strike_attrs, make_pub, EmptyRet)} :
           ret' = d.ret /\ generics' = d.generics
    /\ pc' = "done"
    /\ UNCHANGED <<input, src, strike_attrs, make_pub, venial, tree, type_ret>>

NextFlatten == Flatten

-----------------------------------------------------------------------------
(* The trees of the main specification: every kind of declaration at the    *)
(* root, MaxFields fields or variants, declarations nested MaxDepth deep,   *)
(* at the top of a field's type or inside its generic arguments.            *)

MaxDepth == 3

MaxFields == 2

TreeLevel(l) ==
    IF l = 1
    THEN Level(TRUE, {<<>>}, {""}, {StructNamed, StructTuple, EnumNamed, TypeAlias},
               {"named"}, {""}, {TRUE}, {MaxFields}, {""}, {"leaf", "top", "vec"})
    ELSE IF l = 2
    THEN Level(TRUE, {<<>>}, {""}, {UnionNamed, EnumTuple}, {"anon"}, {""}, {FALSE},
               {1}, {""}, {"leaf", "top"})
    ELSE Level(TRUE, {<<>>}, {""}, {StructNamed}, {"anon"}, {""}, {FALSE},
               {1}, {""}, {"leaf", "top"})

Trees == Gen(1, "t", [l \in 1..MaxDepth |-> TreeLevel(l)])

Init == InitFlatten(Trees, {FALSE})

Spec == Init /\ [][NextFlatten]_vars

\* Visibility: public and private fields, nested declarations written at the
\* top of a field's type and inside a generic-argument group
VisLevel(l) ==
    IF l = 1
    THEN Level(TRUE, {<<>>}, {"", "pub"}, {StructNamed, StructTuple, EnumNamed, EnumTuple},
               {"named"}, {""}, {FALSE}, {1}, {"", "pub"}, {"top", "vec"})
    ELSE IF l = 2
    THEN Level(TRUE, {<<>>}, {""}, {StructNamed, EnumNamed, EnumTuple}, {"named"}, {""},
               {FALSE}, {1}, {"", "pub"}, {"leaf", "top", "vec"})
    ELSE Level(TRUE, {<<>>}, {""}, {StructTuple}, {"named"}, {""}, {FALSE},
               {1}, {""}, {"leaf"})

VisTrees == Gen(1, "t", [l \in 1..3 |-> VisLevel(l)])

InitVis == InitFlatten(VisTrees, {FALSE})

SpecVis == InitVis /\ [][NextFlatten]_vars

\* Enums: written public or private, lifted out of public and private fields,
\* every nested declaration written at the top of a field's type
EnumLevel(l) ==
    IF l = 1
    THEN Level(TRUE, {<<>>}, {"", "pub"}, {StructNamed, StructTuple, EnumNamed, EnumTuple},
               {"named"}, {""}, {FALSE}, {1}, {"", "pub"}, {"top"})
    ELSE IF l = 2
    THEN Level(TRUE, {<<>>}, {"", "pub"}, {EnumNamed, EnumTuple}, {"named"}, {""},
               {FALSE}, {1}, {"", "pub"}, {"leaf", "top"})
    ELSE Level(TRUE, {<<>>}, {""}, {StructNamed, StructTuple}, {"named"}, {""}, {FALSE},
               {1}, {""}, {"leaf"})

EnumTrees == Gen(1, "t", [l \in 1..3 |-> EnumLevel(l)])

InitEnum == InitFlatten(EnumTrees, {FALSE})

SpecEnum == InitEnum /\ [][NextFlatten]_vars

\* Ambiguity: a field whose type holds two declarations side by side, or a
\* declaration named by a word that is itself a declaration keyword
AmbiguousLevel(l) ==
    IF l = 1
    THEN Level(TRUE, {<<>>}, {""}, {StructNamed, StructTuple, EnumTuple}, {"named"}, {""},
               {FALSE}, {1}, {""}, {"leaf", "top", "adj"})
    ELSE Level(TRUE, {<<>>}, {""}, {StructNamed, StructTuple}, {"named", "union"}, {""},
               {FALSE}, {1}, {""}, {"leaf"})

AmbiguousTrees == Gen(1, "t", [l \in 1..2 |-> AmbiguousLevel(l)])

InitAmbiguous == InitFlatten(AmbiguousTrees, {FALSE})

SpecAmbiguous == InitAmbiguous /\ [][NextFlatten]_vars

\* Flat declarations: nothing nested, no marker, no terminator written
FlatLevel(l) ==
    Level(FALSE, {<<>>, <<SrcAttr("own", "o")>>}, {"", "pub", "crate"},
          {StructNamed, StructTuple, StructUnit, EnumNamed, EnumTuple, EnumUnit,
           UnionNamed, TypeAlias},
          {"named"}, {"", "TB"}, {FALSE}, {1}, {"", "pub"}, {"leaf", "path", "arrow"})

FlatTrees == Gen(1, "t", [l \in 1..1 |-> FlatLevel(l)])

InitFlat == InitFlatten(FlatTrees, {FALSE})

SpecFlat == InitFlat /\ [][NextFlatten]_vars

\* Attributes: own attributes, propagation markers (also the deprecated
\* spelling and one carrying the long-naming marker) down three levels
AttrLevel(l) ==
    IF l = 1
    THEN Level(TRUE,
               {<<>>,
                <<SrcAttr("own", "o"), SrcAttr("each", "d")>>,
                <<SrcAttr("each_long", "")>>,
                <<SrcAttr("strikethrough", "s"), SrcAttr("each", "e")>>},
               {""}, {StructNamed, EnumNamed}, {"named"}, {""}, {FALSE}, {2}, {""},
               {"leaf", "top", "vec"})
    ELSE IF l = 2
    THEN Level(TRUE,
               {<<>>, <<SrcAttr("each", "f")>>,
                <<SrcAttr("own", "p"), SrcAttr("inner", "i")>>},
               {""}, {StructNamed}, {"named"}, {""}, {FALSE}, {1}, {""}, {"leaf", "top"})
    ELSE Level(TRUE, {<<SrcAttr("own", "q")>>}, {""}, {StructTuple}, {"named"}, {""},
               {FALSE}, {1}, {""}, {"leaf"})

AttrTrees == Gen(1, "t", [l \in 1..3 |-> AttrLevel(l)])

InitAttr == InitFlatten(AttrTrees, {FALSE})

SpecAttr == InitAttr /\ [][NextFlatten]_vars

\* Generics: a lifted declaration with each of the parameter lists of RenderGen
GenericsLevel(l) ==
    IF l = 1
    THEN Level(TRUE, {<<>>}, {""}, {StructNamed, StructTuple, EnumTuple, TypeAlias},
               {"named"}, {""}, {TRUE}, {1}, {""}, {"top", "vec"})
    ELSE Level(TRUE, {<<>>}, {""}, {StructNamed, StructTuple, EnumUnit}, {"named", "anon"},
               {"", "T", "TB", "aT", "constN"}, {FALSE}, {1}, {""}, {"leaf"})

GenericsTrees == Gen(1, "t", [l \in 1..2 |-> GenericsLevel(l)])

InitGenerics == InitFlatten(GenericsTrees, {FALSE})

SpecGenerics == InitGenerics /\ [][NextFlatten]_vars

\* Naming: anonymous declarations in the fields of a declaration in short or
\* long mode
MaxNameFields == 2

NameLevel(l) ==
    IF l = 1
    THEN Level(TRUE, {<<>>, <<SrcAttr("long", "")>>}, {""},
               {StructNamed, StructTuple, EnumNamed, EnumTuple, UnionNamed},
               {"Foo", "Quux", "q_x"}, {""}, {FALSE}, {MaxNameFields}, {""},
               {"leaf", "top", "vec"})
    ELSE Level(FALSE, {<<>>}, {""}, {StructNamed, StructTuple}, {"anon"}, {""}, {FALSE},
               {1}, {""}, {"leaf"})

NameTrees == Gen(1, "t", [l \in 1..2 |-> NameLevel(l)])

InitNames == InitFlatten(NameTrees, {FALSE})

SpecNames == InitNames /\ [][NextFlatten]_vars

\* The tokenizer on its own: a type expression is tokenized, then reassembled
MaxTypeLen == 4

TypeAlphabet == {Punct("<"), Punct(">"), Punct(","), Ident("u8"), Ident("struct")}

TypeExprs == UNION {[1..n -> TypeAlphabet] : n \in 0..MaxTypeLen}

InitTree ==
    /\ pc = "tokens"
    /\ input \in TypeExprs
    /\ src = <<>>
    /\ strike_attrs = <<>> /\ make_pub = FALSE /\ venial = "ignore"
    /\ Idle

\* type_tree(&input, ret)
TypeTree ==
    /\ pc = "tokens"
    /\ LET t == type_tree(input, ret) IN tree' = t.tree /\ ret' = t.ret
    /\ pc' = "tree"
    /\ UNCHANGED <<input, src, strike_attrs, make_pub, venial, generics, type_ret>>

\* un_tree_type(&tree, &mut type_ret)
UnTreeType ==
    /\ pc = "tree"
    /\ type_ret' = type_ret \o un_tree_type(tree)
    /\ pc' = "untreed"
    /\ UNCHANGED <<input, src, strike_attrs, make_pub, venial, ret, generics, tree>>

NextTree == TypeTree \/ UnTreeType

SpecTree == InitTree /\ [][NextTree]_vars

-----------------------------------------------------------------------------
(* What the output holds *)

Out == ret.out

Completed == pc = "done" /\ ~ret.panic

Decls == SelectSeq(Out, LAMBDA it : it.t = "decl")

Errors == SelectSeq(Out, LAMBDA it : it.t = "error")

HasError(msg) == \E i \in 1..Len(Out) : Out[i].t = "error" /\ Out[i].msg = msg

SrcNodes == PostOrder(src)

\* tags are the attributes #[t..] the input trees are written with
IsTag(a) ==
    /\ Len(a.path) = 1 /\ a.value.kind = "Empty"
    /\ a.path[1].k = "ident" /\ SubSeq(a.path[1].v, 1, 1) = "t"

\* the tags an emitted declaration carries
TagsOf(decl) ==
    LET tags == SelectSeq(decl.attributes, IsTag)
    IN  [i \in 1..Len(tags) |-> tags[i].path[1].v]

\* what tells a declaration from the others: its tag, or else its name
KeyOf(decl) ==
    LET tags == TagsOf(decl) IN IF tags # <<>> THEN tags[1] ELSE decl.name.v

NodeKey(n) == IF n.tag # "" THEN n.tag ELSE n.name

EmittedKeys == LET ds == Decls IN [i \in 1..Len(ds) |-> KeyOf(ds[i].decl)]

ExpectedKeys == LET ns == SrcNodes IN [i \in 1..Len(ns) |-> NodeKey(ns[i])]

\* s is t with some elements left out
RECURSIVE IsSubsequence(_, _)
IsSubsequence(s, t) ==
    IF s = <<>> THEN TRUE
    ELSE IF t = <<>> THEN FALSE
    ELSE IF Head(s) = Head(t) THEN IsSubsequence(Tail(s), Tail(t))
    ELSE IsSubsequence(s, Tail(t))

\* C1: post-order emission.  The declarations emitted are in the order of
\* the post-order walk of the input tree (every declaration after all the
\* declarations nested in its fields or variants, siblings left to right by
\* field or variant), and when nothing was reported all of them are emitted.
C1_PostOrder ==
    pc = "done" =>
        LET emitted == EmittedKeys
            expected == ExpectedKeys
        IN  /\ IsSubsequence(emitted, expected)
            /\ (Completed /\ Errors = <<>> => emitted = expected)

\* a struct whose first field nests A (holding a declaration of its own) and
\* whose second field nests B has been flattened to [.., A, B, outer]
C1_Witness ==
    /\ Completed /\ Errors = <<>>
    /\ src.kw = "struct" /\ Len(src.fields) = 2
    /\ src.fields[1].wrap = "top" /\ src.fields[2].wrap = "vec"
    /\ src.fields[1].children[1].fields[1].wrap = "top"
    /\ Len(Decls) = 4
    /\ EmittedKeys = <<NodeKey(src.fields[1].children[1].fields[1].children[1]),
                       NodeKey(src.fields[1].children[1]),
                       NodeKey(src.fields[2].children[1]),
                       NodeKey(src)>>

\* the places of a tree: every nested declaration with the declaration and
\* the field (or variant) it is written in
RECURSIVE Places(_)
Places(n) ==
    Concat([i \in 1..Len(n.fields) |->
              Concat([j \in 1..Len(n.fields[i].children) |->
                        <<[child |-> n.fields[i].children[j], parent |-> n,
                           field |-> n.fields[i], index |-> i]>>
                        \o Places(n.fields[i].children[j])])])

\* the emitted declarations that come from node n
EmittedFor(n) ==
    LET ds == Decls
    IN  {ds[i].decl : i \in {k \in 1..Len(ds) : KeyOf(ds[k].decl) = NodeKey(n)}}

IsPublic(decl) ==
    /\ decl.vis_marker # None
    /\ is_ident(decl.vis_marker[1].tk_token1, "pub")
    /\ decl.vis_marker[1].tk_token2 = None

\* C2: visibility forwarding.  Every declaration lifted out of the type of a
\* field marked pub is emitted with a pub marker, whether its keyword is at
\* the top of the type or inside a generic-argument group.
C2_Forwarding ==
    (Completed /\ Errors = <<>>) =>
        LET ps == Places(src)
        IN  \A i \in 1..Len(ps) :
                ps[i].field.vis = "pub" =>
                    /\ EmittedFor(ps[i].child) # {}
                    /\ \A d \in EmittedFor(ps[i].child) : IsPublic(d)

\* C10: enum visibility inheritance.  Every declaration lifted from a variant
\* of an enum that is emitted with a plain pub marker (written in the source
\* or obtained when the enum was lifted out of a public place) is emitted
\* with a pub marker, whatever the variant field's own marker.
C10_Inheritance ==
    (Completed /\ Errors = <<>>) =>
        LET ps == Places(src)
        IN  \A i \in 1..Len(ps) :
                (/\ ps[i].parent.kw = "enum"
                 /\ \E e \in EmittedFor(ps[i].parent) : IsPublic(e))
                => /\ EmittedFor(ps[i].child) # {}
                   /\ \A d \in EmittedFor(ps[i].child) : IsPublic(d)

\* a field whose type has two or more declaration keywords outside brackets
TwoKeywords(f) ==
    \/ f.wrap = "adj"
    \/ f.wrap = "top" /\ is_decl_kw(f.children[1].name)

AmbiguousMessage == "More than one struct/enum/.. declaration found"

\* C3: ambiguous nesting rejected.  For a field whose type has two or more
\* declaration keywords at its top level the marker "More than one
\* struct/enum/.. declaration found" is in the output and no declaration
\* written in that field is emitted.
C3_Rejected ==
    Completed =>
        \A i \in 1..Len(src.fields) :
            TwoKeywords(src.fields[i]) =>
                /\ HasError(AmbiguousMessage)
                /\ \A j \in 1..Len(src.fields[i].children) :
                       EmittedFor(src.fields[i].children[j]) = {}

\* a declaration without the terminator that may end it
StripSemicolon(toks) ==
    IF toks # <<>> /\ is_punct(toks[Len(toks)], ";")
    THEN SubSeq(toks, 1, Len(toks) - 1) ELSE toks

\* C8: idempotence on flat input.  A supported declaration that nests nothing
\* and carries no marker, flattened with force-public unset and nothing
\* inherited, gives exactly one declaration, the input's (a terminating
\* semicolon apart), and no error marker.
C8_Idempotent ==
    pc = "done" =>
        /\ ~ret.panic
        /\ Len(Out) = 1
        /\ Out[1].t = "decl"
        /\ StripSemicolon(Out[1].tokens) = StripSemicolon(input)

\* every node of a tree with the nodes it is nested in, outermost first
RECURSIVE Chains(_, _)
Chains(n, above) ==
    LET chain == Append(above, n)
    IN  <<chain>>
        \o Concat([i \in 1..Len(n.fields) |->
                     Concat([j \in 1..Len(n.fields[i].children) |->
                               Chains(n.fields[i].children[j], chain)])])

\* what a propagation marker carries, as the attribute it becomes
Payloads(n, withLong) ==
    LET ms == SelectSeq(n.attrs, LAMBDA a :
                  \/ a.kind \in {"each", "strikethrough"}
                  \/ withLong /\ a.kind = "each_long")
    IN  Concat([i \in 1..Len(ms) |->
                  <<Punct("#"),
                    Group("[", IF ms[i].kind = "each_long" THEN CratePath("long_names")
                               ELSE <<Ident(ms[i].p)>>)>>])

\* a declaration's own attributes in the order the flattener reads them:
\* those written inside its body, its tag, those written ahead of it
OwnAttrs(n) ==
    LET pick(k) == SelectSeq(n.attrs, LAMBDA a : a.kind = k)
        tok(as) == Concat([i \in 1..Len(as) |->
                             <<Punct("#"), Group("[", <<Ident(as[i].p)>>)>>])
    IN  tok(pick("inner"))
        \o (IF n.tag = "" THEN <<>> ELSE <<Punct("#"), Group("[", <<Ident(n.tag)>>)>>)
        \o tok(pick("own"))

ExpectedAttrs(chain, withLong) ==
    Concat([i \in 1..Len(chain) |-> Payloads(chain[i], withLong)])
    \o OwnAttrs(chain[Len(chain)])

Propagated(withLong) ==
    LET cs == Chains(src, <<>>)
    IN  \A i \in 1..Len(cs) :
            LET n == cs[i][Len(cs[i])]
            IN  /\ EmittedFor(n) # {}
                /\ \A d \in EmittedFor(n) :
                       attributes_to_tokens(d.attributes) = ExpectedAttrs(cs[i], withLong)

\* C9: attribute propagation.  Every emitted declaration carries, ahead of
\* its own attributes, the payloads of the propagation markers of its
\* ancestors and of itself, ancestors first, and nothing else: no marker,
\* no payload of another subtree, and no long-naming marker even where a
\* propagation marker carried one.
C9_Propagation == (Completed /\ Errors = <<>>) => Propagated(FALSE)

\* the statement as it was made: exactly the payloads, the long-naming marker
\* that a propagation marker carries among them
C9_ExactPayloads == (Completed /\ Errors = <<>>) => Propagated(TRUE)

\* three levels, markers on the first two: the innermost declaration carries
\* d then f ahead of its own q, and its sibling's subtree has no f
C9_Witness ==
    /\ Completed /\ Errors = <<>>
    /\ src.attrs = <<SrcAttr("own", "o"), SrcAttr("each", "d")>>
    /\ src.fields[1].wrap = "top" /\ src.fields[2].wrap = "vec"
    /\ src.fields[1].children[1].attrs = <<SrcAttr("each", "f")>>
    /\ src.fields[1].children[1].fields[1].wrap = "top"
    /\ src.fields[2].children[1].attrs = <<>>
    /\ Len(Decls) = 4
    /\ attributes_to_tokens(Decls[1].decl.attributes)
         = <<Punct("#"), Group("[", <<Ident("d")>>),
             Punct("#"), Group("[", <<Ident("f")>>),
             Punct("#"), Group("[", <<Ident("t11")>>),
             Punct("#"), Group("[", <<Ident("q")>>)>>
    /\ attributes_to_tokens(Decls[3].decl.attributes)
         = <<Punct("#"), Group("[", <<Ident("d")>>),
             Punct("#"), Group("[", <<Ident("t2")>>)>>

\* the type the emitted declaration r gives its i-th field (or variant, or
\* the type an alias stands for)
FieldType(r, i) ==
    CASE r.kind = "Enum"         -> r.variants[i].contents.list[1].ty
      [] r.kind = "TyDefinition" -> r.initializer_ty
      [] OTHER                   -> r.fields.list[i].ty

\* the reference each parameter list of RenderGen is to leave
ExpectedReference(gen) ==
    CASE gen = ""       -> <<>>
      [] gen = "T"      -> <<Punct("<"), Ident("T"), Punct(">")>>
      [] gen = "TB"     -> <<Punct("<"), Ident("T"), Punct(">")>>
      [] gen = "aT"     -> <<Punct("<"), Punct("'"), Ident("a"), Punct(","),
                             Ident("T"), Punct(">")>>
      [] gen = "constN" -> <<Punct("<"), Ident("N"), Punct(","), Punct(">")>>

InWrap(w, toks) ==
    IF w = "vec" THEN <<Ident("Vec"), Punct("<")>> \o toks \o <<Punct(">")>> ELSE toks

\* C6: generics re-projection.  Where a declaration was lifted out of a
\* field, the field's type holds the declaration's name followed by its
\* parameters in their order, bounds removed, a prefix kept only when it is
\* punctuation, and the name alone when there are no parameters.
C6_Reprojection ==
    (Completed /\ Errors = <<>>) =>
        LET root == Decls[Len(Decls)].decl
        IN  \A i \in 1..Len(src.fields) :
                src.fields[i].children # <<>> =>
                    LET c == src.fields[i].children[1]
                    IN  \E d \in EmittedFor(c) :
                            FieldType(root, i)
                              = InWrap(src.fields[i].wrap,
                                       <<d.name>> \o ExpectedReference(c.gen))

\* struct N<'a, T: Into<u8>> lifted out of a Vec is referred to as N<'a, T>
C6_Witness ==
    /\ Completed /\ Errors = <<>>
    /\ src.kw = "struct" /\ src.shape = "named"
    /\ src.fields[1].wrap = "vec"
    /\ src.fields[1].children[1].gen = "aT"
    /\ Len(Decls) = 2
    /\ Decls[2].decl.fields.list[1].ty
         = <<Ident("Vec"), Punct("<"), Ident("Nt1"), Punct("<"), Punct("'"), Ident("a"),
             Punct(","), Ident("T"), Punct(">"), Punct(">")>>

\* the capitalized-word form of the names the trees are written with
Capitalized(name) ==
    CASE name = "bar"  -> "Bar"
      [] name = "b_c"  -> "BC"
      [] name = "r#fn" -> "Fn"
      [] name = "x4"   -> "X4"
      [] name = "q_x"  -> "QX"
      [] OTHER         -> name

\* the position of a field of n among the fields of its body
IndexSuffix(n, i) == IF n.shape = "tuple" /\ i > 1 THEN ToString(i - 1) ELSE ""

ShortName(n, i) ==
    LET f == n.fields[i]
    IN  Capitalized(IF f.name # "" THEN f.name
                    ELSE IF f.variant # "" THEN f.variant ELSE n.name)
        \o IndexSuffix(n, i)

LongName(n, i) ==
    LET f == n.fields[i]
    IN  Capitalized(n.name)
        \o (IF f.variant # "" THEN Capitalized(f.variant) ELSE "")
        \o (IF f.name # "" THEN Capitalized(f.name) ELSE "")
        \o IndexSuffix(n, i)

IsLong(n) == \E i \in 1..Len(n.attrs) : n.attrs[i].kind = "long"

\* the fields of n that nest a declaration, and the name given to the one
\* of field i: declarations are emitted field by field
Nesting(n) == {i \in 1..Len(n.fields) : n.fields[i].children # <<>>}

SynthesizedName(n, i) == Decls[Cardinality({j \in Nesting(n) : j <= i})].decl.name.v

\* C4: short-mode names.  Without the long-naming marker the name given to
\* an anonymous nested declaration is the capitalized field name, else
\* variant name, else root name, followed by the position when it is not 0;
\* two positions of one tuple never get the same name.
C4_ShortNames ==
    (Completed /\ Errors = <<>> /\ ~IsLong(src)) =>
        /\ \A i \in Nesting(src) : SynthesizedName(src, i) = ShortName(src, i)
        /\ src.shape = "tuple" =>
               \A i, j \in Nesting(src) :
                   i # j => SynthesizedName(src, i) # SynthesizedName(src, j)

\* struct Foo(struct(..), struct(..)) gave Foo and Foo1
C4_Witness ==
    /\ Completed /\ Errors = <<>> /\ ~IsLong(src)
    /\ src.shape = "tuple" /\ src.name = "Foo"
    /\ Nesting(src) = {1, 2}
    /\ Len(Decls) = 3
    /\ Decls[1].decl.name.v = "Foo" /\ Decls[2].decl.name.v = "Foo1"

\* C5: long-mode names.  With the long-naming marker on a declaration the
\* name given to an anonymous declaration nested in one of its fields is the
\* capitalized root name, variant name (if any), field name (if any) and
\* position (if not 0), joined in that order.
C5_LongNames ==
    (Completed /\ Errors = <<>> /\ IsLong(src)) =>
        \A i \in Nesting(src) : SynthesizedName(src, i) = LongName(src, i)

\* field bar of variant Baz of enum Quux gave QuuxBazBar
C5_Witness ==
    /\ Completed /\ Errors = <<>> /\ IsLong(src)
    /\ src.kw = "enum" /\ src.name = "Quux"
    /\ src.fields[1].variant = "Baz" /\ src.fields[1].name = "bar"
    /\ 1 \in Nesting(src)
    /\ Decls[1].decl.name.v = "QuuxBazBar"

\* the angle brackets of a token sequence are all matched
RECURSIVE Matched(_, _)
Matched(toks, open) ==
    IF toks = <<>> THEN open = 0
    ELSE IF is_punct(Head(toks), "<") THEN Matched(Tail(toks), open + 1)
    ELSE IF is_punct(Head(toks), ">") THEN open > 0 /\ Matched(Tail(toks), open - 1)
    ELSE Matched(Tail(toks), open)

\* C7: tokenizer round trip.  For a token sequence whose angle brackets are
\* all matched, type_tree reports nothing and un_tree_type of its result is
\* the sequence itself.
C7_RoundTrip ==
    Matched(input, 0) =>
        /\ pc \in {"tree", "untreed"} => ret = EmptyRet
        /\ pc = "untreed" => type_ret = input

\* a sequence with a bracket group inside a bracket group went through
C7_Witness ==
    /\ pc = "untreed"
    /\ input = <<Punct("<"), Punct("<"), Punct(">"), Punct(">")>>
    /\ type_ret = input
    /\ ret = EmptyRet

-----------------------------------------------------------------------------
(* Errors in nested declarations *)

\* Failing declarations: nested declarations that are modules, functions or
\* enums without a body, next to well-formed ones; the root may carry a
\* propagation marker with no payload, which leaves report_error no span,
\* and may be named _1, a name whose PascalCase form is not an identifier
MaxErrFields == 2

ErrLevel(l) ==
    IF l = 1
    THEN Level(TRUE, {<<>>, <<SrcAttr("each_bare", "")>>}, {""},
               {StructNamed, StructTuple, EnumTuple}, {"named", "_1"}, {""}, {FALSE},
               {MaxErrFields},
               {""}, {"leaf", "top", "vec"})
    ELSE IF l = 2
    THEN Level(TRUE, {<<>>}, {""}, {StructNamed, ModUnit, FnTuple, EnumBodiless},
               {"named"}, {""}, {FALSE}, {1}, {""}, {"leaf", "top"})
    ELSE Level(TRUE, {<<>>}, {""}, {StructTuple}, {"named"}, {""}, {FALSE},
               {1}, {""}, {"leaf"})

ErrTrees == Gen(1, "t", [l \in 1..3 |-> ErrLevel(l)])

InitErr == InitFlatten(ErrTrees, {FALSE})

SpecErr == InitErr /\ [][NextFlatten]_vars

Unsupported(n) == n.kw \in {"fn", "mod", "trait"}

Unparsable(n) == n.kw \in {"enum", "union"} /\ n.shape = "unit"

\* the nodes the walk comes to, in post-order; nothing inside a failing
\* declaration is walked
RECURSIVE Walked(_)
Walked(n) ==
    IF Unsupported(n) \/ Unparsable(n) THEN <<n>>
    ELSE Concat([i \in 1..Len(n.fields) |->
                   Concat([j \in 1..Len(n.fields[i].children) |->
                             Walked(n.fields[i].children[j])])])
         \o <<n>>

\* what each walked node leaves in the output: its declaration, or one marker
ExpectedItems ==
    LET ns == Walked(src)
    IN  [i \in 1..Len(ns) |->
           IF Unsupported(ns[i])
           THEN <<"error",
                  "Unsupported declaration (only struct, enum, and union are allowed)">>
           ELSE IF Unparsable(ns[i]) THEN <<"error", "ParseFailure">>
           ELSE <<"decl", NodeKey(ns[i])>>]

EmittedItems ==
    [i \in 1..Len(Out) |->
       IF Out[i].t = "decl" THEN <<"decl", KeyOf(Out[i].decl)>>
       ELSE IF Out[i].t = "error" THEN <<"error", Out[i].msg>>
       ELSE <<Out[i].t, "">>]

\* the root carries a propagation marker without payload: nothing to anchor
\* the report of the malformed marker to
NoAnchor == \E i \in 1..Len(src.attrs) : src.attrs[i].kind = "each_bare"

\* the name hint of a tuple field is made of the declaration's name and the
\* field's position: for the first field of a declaration named _1 it is "1"
HintNotAnIdent == src.shape = "tuple" /\ ~is_valid_ident(pascal_case(src.name))

\* C11: error containment.  A nested declaration that does not parse or is
\* of an unsupported kind leaves exactly one error marker and no declaration
\* in the output, at its place in the post-order; the declaration holding it
\* and the declarations lifted from the other fields and variants are emitted
\* as they would be; and the call aborts exactly when an error is reported
\* with no span to anchor it.
C11_Containment ==
    pc = "done" =>
        /\ ret.panic <=> NoAnchor
        /\ ~ret.panic => EmittedItems = ExpectedItems

\* C11, as far as the code goes: the same, for the inputs whose name hints
\* are identifiers
C11_ContainedWhenNamed ==
    (pc = "done" /\ ~HintNotAnIdent) =>
        /\ ret.panic <=> NoAnchor
        /\ ~ret.panic => EmittedItems = ExpectedItems

\* C11: the call aborted with every report anchored
C11_AbortWithoutReport ==
    pc = "done" /\ ret.panic /\ ~NoAnchor /\ HintNotAnIdent

\* a declaration of two fields, the first holding an enum without a body and
\* the second a well-formed struct: a marker, the struct, then the root
C11_Witness ==
    /\ Completed
    /\ Len(src.fields) = 2
    /\ src.fields[1].wrap = "top" /\ Unparsable(src.fields[1].children[1])
    /\ src.fields[2].wrap = "vec" /\ src.fields[2].children[1].kw = "struct"
    /\ src.fields[2].children[1].fields[1].wrap = "leaf"
    /\ EmittedItems = <<<<"error", "ParseFailure">>,
                        <<"decl", NodeKey(src.fields[2].children[1])>>,
                        <<"decl", NodeKey(src)>>>>

-----------------------------------------------------------------------------
(* The tokenizer's recovery *)

\* the number of < open before token i of toks, a > with none open closing
\* nothing
RECURSIVE OpenBefore(_, _)
OpenBefore(toks, i) ==
    IF i <= 1 THEN 0
    ELSE LET d == OpenBefore(toks, i - 1) IN
         IF is_punct(toks[i - 1], "<") THEN d + 1
         ELSE IF is_punct(toks[i - 1], ">") /\ d > 0 THEN d - 1
         ELSE d

\* the > of toks met with no < open
StrayCloses(toks) ==
    {i \in 1..Len(toks) : is_punct(toks[i], ">") /\ OpenBefore(toks, i) = 0}

\* the < of toks that no > closes
OpenAtEnd(toks) == OpenBefore(toks, Len(toks) + 1)

\* the > closing the < at the head of toks, Len(toks) + 1 when there is none
CloserOf(toks) ==
    LET closers == {j \in 2..Len(toks) :
                      is_punct(toks[j], ">") /\ OpenBefore(toks, j) = 1
                      /\ \A k \in 2..j : OpenBefore(toks, k) >= 1}
    IN  IF closers = {} THEN Len(toks) + 1
        ELSE CHOOSE j \in closers : \A k \in closers : j <= k

\* the tree of a token sequence, read off the brackets by descent
RECURSIVE BracketTree(_)
BracketTree(toks) ==
    IF toks = <<>> THEN <<>>
    ELSE IF is_punct(Head(toks), "<")
    THEN LET c == CloserOf(toks) IN
         <<[node |-> "Group", tok |-> Head(toks),
            children |-> BracketTree(SubSeq(toks, 2, c - 1)),
            close |-> IF c <= Len(toks) THEN <<toks[c]>> ELSE <<>>]>>
         \o BracketTree(SubSeq(toks, c + 1, Len(toks)))
    ELSE <<[node |-> "Token", tok |-> Head(toks), children |-> <<>>, close |-> <<>>]>>
         \o BracketTree(Tail(toks))

CountErrors(msg) == Cardinality({i \in 1..Len(Out) : Out[i] = ErrorItem(msg)})

\* the commas and declaration keywords at the top level of a tree
TopLevelMarks(t) ==
    Cardinality({i \in 1..Len(t) : get_tt_punct(t[i], ",") \/ get_decl_ident(t[i])})

\* the commas and declaration keywords of toks outside every < >
OutsideMarks(toks) ==
    Cardinality({i \in 1..Len(toks) :
                   /\ OpenBefore(toks, i) = 0
                   /\ \/ is_punct(toks[i], ",")
                      \/ toks[i].k = "ident" /\ is_decl_kw(toks[i].v)})

\* C12: tokenizer recovery.  type_tree never aborts; it reports "Unexpected >"
\* once for every > met with no < open and keeps that > as a plain token at
\* the level it is met; it reports "Unclosed group" once for every < still
\* open at the end and closes it as a group without closing bracket holding
\* what followed the <; the tokens between a < and its > are all inside the
\* group, so the commas and declaration keywords seen at the top level are
\* those outside every pair of angle brackets.
C12_Recovery ==
    pc = "tree" =>
        /\ ~ret.panic
        /\ CountErrors("Unexpected >") = Cardinality(StrayCloses(input))
        /\ CountErrors("Unclosed group") = OpenAtEnd(input)
        /\ Len(Out) = Cardinality(StrayCloses(input)) + OpenAtEnd(input)
        /\ tree = BracketTree(input)
        /\ \A i \in StrayCloses(input) :
               \E j \in 1..Len(tree) : tree[j] = TTToken(input[i])
        /\ TopLevelMarks(tree) = OutsideMarks(input)

\* the input  > < , <  has been tokenized: one stray >, two < left open, and
\* the comma inside the first of them
C12_Witness ==
    /\ pc = "tree"
    /\ input = <<Punct(">"), Punct("<"), Punct(","), Punct("<")>>
    /\ Out = <<ErrorItem("Unexpected >"), ErrorItem("Unclosed group"),
               ErrorItem("Unclosed group")>>
    /\ Len(tree) = 2 /\ tree[1] = TTToken(Punct(">"))
    /\ tree[2].node = "Group" /\ tree[2].close = None
    /\ Len(tree[2].children) = 2 /\ tree[2].children[1] = TTToken(Punct(","))
    /\ tree[2].children[2] = TTGroup(Punct("<"), <<>>, None)

-----------------------------------------------------------------------------
(* Visibility markers in tuple fields *)

\* Tuple fields: a tuple struct or an enum of tuple variants whose one field
\* is written with or without a visibility marker, its type a scalar or a
\* declaration written with or without a marker and an attribute of its own
TupleVisLevel(l) ==
    IF l = 1
    THEN Level(FALSE, {<<>>}, {"", "pub"}, {StructTuple, EnumTuple}, {"named"}, {""},
               {TRUE}, {1}, {"", "pub", "crate"}, {"leaf", "top"})
    ELSE Level(FALSE, {<<>>, <<SrcAttr("own", "o")>>}, {"", "pub", "crate"},
               {StructNamed, StructTuple}, {"named"}, {""}, {FALSE}, {1}, {""},
               {"leaf"})

TupleVisTrees == Gen(1, "t", [l \in 1..2 |-> TupleVisLevel(l)])

InitTupleVis == InitFlatten(TupleVisTrees, {FALSE})

SpecTupleVis == InitTupleVis /\ [][NextFlatten]_vars

\* the tuple fields of the root written with a marker, their type a nested
\* declaration
MarkedTupleFields ==
    {i \in 1..Len(src.fields) :
        /\ src.shape \in {"tuple", "enum_tuple"}
        /\ src.fields[i].wrap = "top"
        /\ src.fields[i].vis # ""}

\* the field the root's emitted declaration d has for the source's field i
EmittedField(d, i) ==
    IF d.kind = "Enum" THEN d.variants[i].contents.list[1] ELSE d.fields.list[i]

\* C13: tuple-field visibility transfer.  A nested declaration written
\* without a marker in a tuple field that has one is emitted carrying the
\* field's marker; a nested declaration written with a marker keeps it, and
\* the field keeps its own.
C13_Transfer ==
    Completed =>
        \A i \in MarkedTupleFields :
            LET f == src.fields[i]
                c == f.children[1]
            IN  /\ EmittedFor(c) # {}
                /\ EmittedFor(src) # {}
                /\ IF c.vis = ""
                   THEN \A d \in EmittedFor(c) :
                            vis_to_tokens(d.vis_marker) = RenderVis(f.vis)
                   ELSE /\ \A d \in EmittedFor(c) :
                               vis_to_tokens(d.vis_marker) = RenderVis(c.vis)
                        /\ \A d \in EmittedFor(src) :
                               vis_to_tokens(EmittedField(d, i).vis_marker)
                                   = RenderVis(f.vis)

\* C13, as far as the code goes: the same, for the nested declarations that
\* are written without an attribute or with a marker of their own
C13_TransferUnattributed ==
    Completed =>
        \A i \in MarkedTupleFields :
            LET f == src.fields[i]
                c == f.children[1]
            IN  (c.attrs = <<>> \/ c.vis # "") =>
                /\ EmittedFor(c) # {}
                /\ EmittedFor(src) # {}
                /\ IF c.vis = ""
                   THEN \A d \in EmittedFor(c) :
                            vis_to_tokens(d.vis_marker) = RenderVis(f.vis)
                   ELSE /\ \A d \in EmittedFor(c) :
                               vis_to_tokens(d.vis_marker) = RenderVis(c.vis)
                        /\ \A d \in EmittedFor(src) :
                               vis_to_tokens(EmittedField(d, i).vis_marker)
                                   = RenderVis(f.vis)

\* C13: a field marked pub(crate) whose nested declaration has no marker has
\* been flattened, the declaration emitted pub(crate) and the field bare
C13_Witness ==
    /\ Completed /\ Errors = <<>>
    /\ src.shape = "tuple" /\ MarkedTupleFields = {1}
    /\ src.fields[1].vis = "crate" /\ src.fields[1].children[1].vis = ""
    /\ \E d \in EmittedFor(src.fields[1].children[1]) :
           vis_to_tokens(d.vis_marker) = RenderVis("crate")
    /\ \E d \in EmittedFor(src) : d.fields.list[1].vis_marker = None

\* C13: a field marked pub whose nested declaration carries an attribute and
\* no marker has been flattened, and the declaration was not emitted
C13_Lost ==
    /\ Completed
    /\ src.shape = "tuple" /\ MarkedTupleFields = {1}
    /\ src.fields[1].vis = "pub" /\ src.fields[1].children[1].vis = ""
    /\ src.fields[1].children[1].attrs # <<>>
    /\ EmittedFor(src.fields[1].children[1]) = {}
    /\ HasError("ParseFailure")

=============================================================================
